---- MODULE Spec2Model ----
(***************************************************************************)
(* Advocate's Digital Diary: the persisted dataset, its localStorage       *)
(* store, the JSON backup codec, the backup reminder and the merge-import, *)
(* as src/utils/storage.ts and the App component of src/App.tsx implement   *)
(* them.                                                                   *)
(*                                                                         *)
(* JavaScript values are modelled as tagged records, so that a property    *)
(* read of a missing field, a truthiness test and Array.isArray behave as  *)
(* they do in the program.  A text (a localStorage item, a file's content) *)
(* is modelled by its syntax: empty, not JSON, or the JSON text of a       *)
(* document.  The view state that only drives rendering (activeView,       *)
(* activeFilter, searchQuery) is not part of the model.                    *)
(***************************************************************************)
EXTENDS Integers, Sequences, FiniteSets, TLC

VARIABLES
  app,                \* "unmounted" | "running" | "crashed" (a render or an updater threw)
  localStorage,       \* [diary: item under STORAGE_KEY, reminder: item under BACKUP_REMINDER_KEY]
  data,               \* useState<DiaryData>
  showBackupAlert,    \* useState(false)
  editingCase,        \* useState<LegalCase | null>
  isFormOpen,         \* useState(false)
  selectedCaseId,     \* useState<string | null>
  caseToDelete,       \* useState<LegalCase | null>
  showPurgeModal,     \* useState(false)
  pendingImportData,  \* useState<DiaryData | null>
  reading,            \* the files a FileReader is reading (readAsText has not completed)
  now,                \* Date.now(), in ms
  uuids,              \* how many values crypto.randomUUID() has returned
  console,            \* the messages console.error has written since the page was opened
  env                 \* the user's surroundings: files, what is typed, when things happen

vars == <<app, localStorage, data, showBackupAlert, editingCase, isFormOpen,
          selectedCaseId, caseToDelete, showPurgeModal, pendingImportData,
          reading, now, uuids, console, env>>

-----------------------------------------------------------------------------
(* Bounds of the model.                                                    *)

MaxUuids == 1       \* calls of crypto.randomUUID() (new cases and history entries)

-----------------------------------------------------------------------------
(* JavaScript values.                                                      *)

undefined == [type |-> "undefined"]
null == [type |-> "null"]
Str(s) == [type |-> "string", value |-> s]
Num(n) == [type |-> "number", value |-> n]
Arr(items) == [type |-> "array", items |-> items]
Obj(members) == [type |-> "object", members |-> members]

\* ToBoolean: what `if (v)`, `!v` and `a || b` test.
Truthy(v) ==
  CASE v.type = "undefined" -> FALSE
    [] v.type = "null" -> FALSE
    [] v.type = "string" -> v.value # ""
    [] v.type = "number" -> v.value # 0
    [] OTHER -> TRUE

\* A property read v.k throws a TypeError on null and undefined.
ReadThrows(v) == v.type \in {"undefined", "null"}

\* v.k for a value on which the read does not throw: a missing property, and
\* any named property of a primitive, reads as undefined.
Get(v, k) ==
  IF v.type = "object" /\ k \in DOMAIN v.members THEN v.members[k] ELSE undefined

\* a === b: primitives by value; two objects (arrays) are never the same
\* reference here, every one compared comes from a different parse or literal.
StrictEquals(a, b) == a.type \notin {"object", "array"} /\ a = b

\* a || b
OrElse(a, b) == IF Truthy(a) THEN a ELSE b

\* { ...o, k1: v1, ... }: the own properties of o, overridden by `over`.
Spread(o, over) ==
  LET base == IF o.type = "object" THEN o.members ELSE <<>>
  IN  Obj([k \in DOMAIN base \cup DOMAIN over |->
             IF k \in DOMAIN over THEN over[k] ELSE base[k]])

IsArray(v) == v.type = "array"

-----------------------------------------------------------------------------
(* Texts and the JSON codec.                                               *)

EmptyText == [syntax |-> "empty"]
InvalidText == [syntax |-> "invalid"]        \* e.g. a truncated document
JsonText(doc) == [syntax |-> "json", doc |-> doc]
NoItem == [syntax |-> "none"]                \* localStorage.getItem(k) === null

RECURSIVE Jsonable(_)
\* What JSON.stringify keeps of a value: an undefined property is left out,
\* an undefined array element becomes null.
Jsonable(v) ==
  CASE v.type = "array" ->
         Arr([i \in DOMAIN v.items |->
                IF v.items[i].type = "undefined" THEN null ELSE Jsonable(v.items[i])])
    [] v.type = "object" ->
         Obj([k \in {m \in DOMAIN v.members : v.members[m].type # "undefined"} |->
                Jsonable(v.members[k])])
    [] OTHER -> v

JSONstringify(v) == JsonText(Jsonable(v))
JSONparseThrows(text) == text.syntax # "json"
JSONparse(text) == text.doc

-----------------------------------------------------------------------------
(* src/utils/storage.ts                                                    *)

twentyFourHours == 86400000

\* The fresh dataset of a first run.
DefaultData ==
  Obj([cases |-> Arr(<<>>), lastBackupDate |-> null, advocateName |-> Str("Counsel")])

\* saveDiaryData writing only into an empty slot.
saveDiaryDataIfAbsent(ls, d) ==
  IF ls.diary.syntax = "none" THEN [ls EXCEPT !.diary = JSONstringify(d)] ELSE ls

\* localStorage.setItem(STORAGE_KEY, JSON.stringify(data))
saveDiaryData(ls, d) == [ls EXCEPT !.diary = JSONstringify(d)]

\* loadDiaryData without its try/catch: the SyntaxError leaves no dataset.
loadDiaryDataNoCatch(ls) ==
  LET stored == ls.diary
  IN  IF stored.syntax \in {"none", "empty"} THEN DefaultData
      ELSE IF JSONparseThrows(stored) THEN undefined
      ELSE JSONparse(stored)

\* `!stored` holds of a missing item and of the empty string.
loadDiaryData(ls) ==
  LET stored == ls.diary
  IN  IF stored.syntax \in {"none", "empty"} THEN DefaultData
      ELSE IF JSONparseThrows(stored) THEN DefaultData
      ELSE JSONparse(stored)

\* What loadDiaryData writes with console.error: the catch of line 22.
loadLogs(ls) ==
  IF ls.diary.syntax \notin {"none", "empty"} /\ JSONparseThrows(ls.diary)
    THEN {"Failed to parse stored diary data"} ELSE {}

\* new Date().toISOString() at time t
IsoString(t) == Str(ToString(t))

\* exportToJson serialising the stamped copy instead of the dataset passed in.
ExportTextStamped(d) == JSONstringify(Spread(d, [lastBackupDate |-> IsoString(now)]))

\* exportToJson returning its argument, no stamp.
ExportedDataNoStamp(d, t) == d

\* The text of the downloaded backup file: JSON.stringify(data, null, 2).
ExportText(d) == JSONstringify(d)

\* importFromJson without the Array.isArray test: any truthy document passes.
importFromJsonNoArrayCheck(jsonStr) ==
  IF JSONparseThrows(jsonStr) THEN null
  ELSE IF Truthy(JSONparse(jsonStr)) THEN JSONparse(jsonStr) ELSE null


\* The copy exportToJson returns (and saves) at time t.
ExportedData(d, t) == Spread(d, [lastBackupDate |-> IsoString(t)])

importFromJson(jsonStr) ==
  IF JSONparseThrows(jsonStr) THEN null
  ELSE LET d == JSONparse(jsonStr)
       IN  IF Truthy(d) /\ IsArray(Get(d, "cases")) THEN d ELSE null

\* What importFromJson writes with console.error: the catch of line 54.
importLogs(jsonStr) == IF JSONparseThrows(jsonStr) THEN {"Failed to import JSON"} ELSE {}

\* shouldShowBackupReminder comparing with >= instead of >.
shouldShowBackupReminderAtThreshold(ls, t) ==
  LET lastPrompt == ls.reminder
  IN  IF lastPrompt.syntax \in {"none", "empty"} THEN TRUE
      ELSE IF lastPrompt.syntax # "decimal" THEN FALSE
      ELSE (t - lastPrompt.value) >= twentyFourHours


\* Date.now().toString(): the decimal text of t; parseInt(text, 10) reads it back.
DecimalText(t) == [syntax |-> "decimal", value |-> t]

\* markBackupReminderAsShown keeping a timestamp already recorded.
markBackupReminderIfAbsent(ls, t) ==
  IF ls.reminder.syntax = "none" THEN [ls EXCEPT !.reminder = DecimalText(t)] ELSE ls


shouldShowBackupReminder(ls, t) ==
  LET lastPrompt == ls.reminder
  IN  IF lastPrompt.syntax \in {"none", "empty"} THEN TRUE
      ELSE IF lastPrompt.syntax # "decimal" THEN FALSE   \* NaN compares false
      ELSE (t - lastPrompt.value) > twentyFourHours

markBackupReminderAsShown(ls, t) == [ls EXCEPT !.reminder = DecimalText(t)]

-----------------------------------------------------------------------------
(* src/App.tsx: the pure parts of the handlers.                            *)

\* The items of the array at d.cases (data.cases of a dataset); none when
\* d.cases is no array.
CasesOf(d) == LET c == Get(d, "cases") IN IF IsArray(c) THEN c.items ELSE <<>>

\* formatDate(dateStr), for the dates of the model
formatDate(dateStr) ==
  CASE dateStr = "" -> "TBD"
    [] dateStr = "2024-01-10" -> "Jan 10, 2024"
    [] dateStr = "2024-02-15" -> "Feb 15, 2024"
    [] OTHER -> "Invalid Date"

\* crypto.randomUUID(): the n-th value it returns
randomUUID(n) == Str("uuid-" \o ToString(n))

\* The index of the first element of `items` whose id === `id`, 0 when none.
FindIndexById(items, id) ==
  LET hits == {i \in DOMAIN items : StrictEquals(Get(items[i], "id"), id)}
  IN  IF hits = {} THEN 0 ELSE CHOOSE i \in hits : \A j \in hits : i <= j

\* mergedCases.find(c => c.id === importedCase.id)
FindById(items, importedCase) ==
  LET i == FindIndexById(items, Get(importedCase, "id"))
  IN  IF i = 0 THEN undefined ELSE items[i]

\* Whether that find throws: its callback reads c.id and then importedCase.id
\* for each c up to the first match.
FindThrows(items, importedCase) ==
  /\ items # <<>>
  /\ \/ ReadThrows(importedCase)
     \/ LET i == FindIndexById(items, Get(importedCase, "id"))
            last == IF i = 0 THEN Len(items) ELSE i
        IN  \E j \in 1..last : ReadThrows(items[j])

\* Variants of the forEach of executeImport: one that pushes every imported
\* case, one in which the imported case replaces the local one, one that
\* pushes nothing.
MergeCasesAlwaysPush(mergedCases, incoming) == mergedCases \o incoming

RECURSIVE MergeCasesIncomingWins(_, _)
MergeCasesIncomingWins(mergedCases, incoming) ==
  IF incoming = <<>> THEN mergedCases
  ELSE LET importedCase == Head(incoming)
           i == FindIndexById(mergedCases, Get(importedCase, "id"))
       IN  MergeCasesIncomingWins(IF i = 0 THEN Append(mergedCases, importedCase)
                                  ELSE [mergedCases EXCEPT ![i] = importedCase],
                                  Tail(incoming))

MergeCasesNoPush(mergedCases, incoming) == mergedCases

RECURSIVE MergeCases(_, _)
\* The forEach of executeImport: push every imported case that find does not find.
MergeCases(mergedCases, incoming) ==
  IF incoming = <<>> THEN mergedCases
  ELSE LET importedCase == Head(incoming)
       IN  MergeCases(IF ~Truthy(FindById(mergedCases, importedCase))
                        THEN Append(mergedCases, importedCase)
                        ELSE mergedCases,
                      Tail(incoming))

RECURSIVE MergeThrows(_, _)
MergeThrows(mergedCases, incoming) ==
  IF incoming = <<>> THEN FALSE
  ELSE LET importedCase == Head(incoming)
       IN  \/ FindThrows(mergedCases, importedCase)
           \/ MergeThrows(IF ~Truthy(FindById(mergedCases, importedCase))
                            THEN Append(mergedCases, importedCase)
                            ELSE mergedCases,
                          Tail(incoming))

\* Variants of the updater of executeImport: one that never takes the name of
\* the import, one that takes its lastBackupDate as well.
MergeKeepsName(prev, incoming) ==
  Spread(prev, [cases |-> Arr(MergeCases(CasesOf(prev), CasesOf(incoming)))])

MergeTakesBackupDate(prev, incoming) ==
  Spread(prev,
         [cases |-> Arr(MergeCases(CasesOf(prev), CasesOf(incoming))),
          advocateName |-> OrElse(Get(incoming, "advocateName"), Get(prev, "advocateName")),
          lastBackupDate |-> OrElse(Get(incoming, "lastBackupDate"),
                                    Get(prev, "lastBackupDate"))])

\* The updater of executeImport: prev merged with the staged dataset.
Merge(prev, incoming) ==
  Spread(prev,
         [cases |-> Arr(MergeCases(CasesOf(prev), CasesOf(incoming))),
          advocateName |-> OrElse(Get(incoming, "advocateName"), Get(prev, "advocateName"))])

\* addOrUpdateCase moving the case it updates to the front.
AddOrUpdateMoveToFront(prev, c) ==
  Spread(prev,
         [cases |-> Arr(<<c>> \o SelectSeq(CasesOf(prev),
                                           LAMBDA x : ~StrictEquals(Get(x, "id"), Get(c, "id"))))])

\* addOrUpdateCase that always unshifts.
AddOrUpdateAlwaysAdd(prev, c) == Spread(prev, [cases |-> Arr(<<c>> \o CasesOf(prev))])

\* The updater of addOrUpdateCase.
AddOrUpdate(prev, c) ==
  LET existingIdx == FindIndexById(CasesOf(prev), Get(c, "id"))
      newCases == IF existingIdx > 0
                    THEN [CasesOf(prev) EXCEPT ![existingIdx] = c]
                    ELSE <<c>> \o CasesOf(prev)
  IN  Spread(prev, [cases |-> Arr(newCases)])

\* Variants of the updater of confirmDelete: one that drops the first case
\* whatever the id, one that also forgets the last backup.
DeleteCaseFirst(prev, idToDelete) ==
  Spread(prev, [cases |-> Arr(IF CasesOf(prev) = <<>> THEN <<>> ELSE Tail(CasesOf(prev)))])

DeleteCaseForgetsBackup(prev, idToDelete) ==
  Spread(prev,
         [cases |-> Arr(SelectSeq(CasesOf(prev),
                                  LAMBDA c : ~StrictEquals(Get(c, "id"), idToDelete))),
          lastBackupDate |-> null])

\* The updater of confirmDelete: prev.cases.filter(c => c.id !== idToDelete)
DeleteCase(prev, idToDelete) ==
  Spread(prev, [cases |-> Arr(SelectSeq(CasesOf(prev),
                                        LAMBDA c : ~StrictEquals(Get(c, "id"), idToDelete)))])

\* The value executePurge sets.
PurgedData ==
  Obj([cases |-> Arr(<<>>), lastBackupDate |-> null, advocateName |-> Str("Counsel")])

\* The fields of the case form when it is submitted, the next hearing date
\* among `dates` and the session note among `notes`.
FormFields(dates, notes) ==
  [title : {"", "New"}, refNum : {""}, court : {"", "High Court"}, desc : {""},
   status : {"Ongoing"}, nextDate : dates, hearingNote : notes]

\* handleSubmit rejects the form: `!title || !court`
SubmitRejected(f) == f.title = "" \/ f.court = ""

\* handleSubmit appends a history entry ("Track rescheduling")
IsReschedule(initialData, f) ==
  /\ Truthy(initialData)
  /\ Truthy(Get(initialData, "nextHearingDate"))
  /\ ~StrictEquals(Str(f.nextDate), Get(initialData, "nextHearingDate"))

\* How many UUIDs handleSubmit draws.
UuidsDrawn(initialData, f) ==
  (IF IsReschedule(initialData, f) THEN 1 ELSE 0)
  + (IF Truthy(initialData) /\ Truthy(Get(initialData, "id")) THEN 0 ELSE 1)

\* handleSubmit starting every history afresh instead of copying initialData.history.
SubmittedCaseFreshHistory(initialData, f, t, n) ==
  LET resched == IsReschedule(initialData, f)
      history ==
        IF resched
          THEN <<Obj([id |-> randomUUID(n + 1),
                      date |-> Get(initialData, "nextHearingDate"),
                      note |-> Str(IF f.hearingNote # "" THEN f.hearingNote
                                   ELSE "Hearing rescheduled to " \o formatDate(f.nextDate))])>>
          ELSE <<>>
      n2 == IF resched THEN n + 1 ELSE n
      oldId == IF Truthy(initialData) THEN Get(initialData, "id") ELSE undefined
      oldCreated == IF Truthy(initialData) THEN Get(initialData, "createdAt") ELSE undefined
  IN  Obj([id |-> OrElse(oldId, randomUUID(n2 + 1)),
           title |-> Str(f.title),
           referenceNumber |-> Str(f.refNum),
           courtName |-> Str(f.court),
           description |-> Str(f.desc),
           status |-> Str(f.status),
           nextHearingDate |-> Str(f.nextDate),
           history |-> Arr(history),
           createdAt |-> OrElse(oldCreated, IsoString(t))])

\* The case handleSubmit passes to onSave, at time t, n UUIDs having been drawn.
SubmittedCase(initialData, f, t, n) ==
  LET base == IF Truthy(initialData) THEN Get(initialData, "history").items ELSE <<>>
      resched == IsReschedule(initialData, f)
      history ==
        IF resched
          THEN Append(base,
                 Obj([id |-> randomUUID(n + 1),
                      date |-> Get(initialData, "nextHearingDate"),
                      note |-> Str(IF f.hearingNote # "" THEN f.hearingNote
                                   ELSE "Hearing rescheduled to " \o formatDate(f.nextDate))]))
          ELSE base
      n2 == IF resched THEN n + 1 ELSE n
      oldId == IF Truthy(initialData) THEN Get(initialData, "id") ELSE undefined
      oldCreated == IF Truthy(initialData) THEN Get(initialData, "createdAt") ELSE undefined
  IN  Obj([id |-> OrElse(oldId, randomUUID(n2 + 1)),
           title |-> Str(f.title),
           referenceNumber |-> Str(f.refNum),
           courtName |-> Str(f.court),
           description |-> Str(f.desc),
           status |-> Str(f.status),
           nextHearingDate |-> Str(f.nextDate),
           history |-> Arr(history),
           createdAt |-> OrElse(oldCreated, IsoString(t))])

\* handleSubmit throws: `[...initialData.history]` of a case without a history array.
SubmitThrows(initialData) ==
  Truthy(initialData) /\ ~IsArray(Get(initialData, "history"))

\* Rendering App with this dataset throws: data.cases.length, the filters over
\* every case (c.nextHearingDate) and data.advocateName.split(' ').
RenderThrows(d) ==
  \/ ReadThrows(d)
  \/ ~IsArray(Get(d, "cases"))
  \/ \E i \in DOMAIN CasesOf(d) : ReadThrows(CasesOf(d)[i])
  \/ Get(d, "advocateName").type # "string"

-----------------------------------------------------------------------------
(* The environment: the files the user can select, and what a first run    *)
(* may find in the store.                                                  *)

\* A case as a backup file holds it.
FileCase(id, title, nextDate) ==
  Obj([id |-> Str(id), title |-> Str(title), referenceNumber |-> Str(""),
       courtName |-> Str("High Court"), description |-> Str(""),
       status |-> Str("Ongoing"), nextHearingDate |-> Str(nextDate),
       history |-> Arr(<<>>), createdAt |-> IsoString(0)])

\* Backups of a diary: BackupOld holds case A, BackupNew a later state of A and
\* a case B and no advocateName, BackupTwice the same id twice.
BackupOld ==
  Obj([cases |-> Arr(<<FileCase("A", "Old", "2024-01-10")>>),
       lastBackupDate |-> null, advocateName |-> Str("Adv. Rao")])
BackupNew ==
  Obj([cases |-> Arr(<<FileCase("A", "New", "2024-02-15"), FileCase("B", "New", "")>>),
       lastBackupDate |-> IsoString(0)])
BackupTwice ==
  Obj([cases |-> Arr(<<FileCase("B", "Old", ""), FileCase("B", "New", "")>>),
       lastBackupDate |-> null, advocateName |-> Str("")])

\* A file: reading it fails, or gives its text.
UnreadableFile == [readable |-> FALSE]
File(text) == [readable |-> TRUE, text |-> text]

NoCasesFile == File(JsonText(Obj([advocateName |-> Str("Adv. Rao")])))

\* What the store holds under STORAGE_KEY before the first mount.
InitialItems ==
  { NoItem, EmptyText, InvalidText, JsonText(null), JsonText(Num(5)),
    JsonText(Obj([advocateName |-> Str("Adv. Rao")])) }

\* The surroundings the model runs in.  Each one is rich in one respect and
\* plain in the others: backups to import, a damaged store and files that
\* import rejects, edits of a case, or the passing of time.
ImportWorld ==
  [items |-> {NoItem},
   files |-> {File(JsonText(BackupOld)), File(JsonText(BackupNew))},
   fields |-> FormFields({""}, {""}),
   names |-> {},
   instants |-> {0}]
RejectWorld ==
  [items |-> {NoItem},
   files |-> {UnreadableFile, File(InvalidText), NoCasesFile, File(JsonText(BackupTwice))},
   fields |-> {},
   names |-> {},
   instants |-> {0}]
StoreWorld ==
  [items |-> InitialItems,
   files |-> {},
   fields |-> FormFields({""}, {""}),
   names |-> {},
   instants |-> {0}]
EditWorld ==
  [items |-> {NoItem},
   files |-> {File(JsonText(BackupOld))},
   fields |-> FormFields({"", "2024-01-10", "2024-02-15"}, {"", "adjourned"}),
   names |-> {},
   instants |-> {0}]
ReminderWorld ==
  [items |-> {NoItem},
   files |-> {},
   fields |-> FormFields({""}, {""}),
   names |-> {"Adv. Rao"},
   instants |-> {0, twentyFourHours - 60000, twentyFourHours, twentyFourHours + 1000}]
\* Documents that parse: some without an array at `cases`, one whose cases
\* array holds an element that is no case.
ShapeWorld ==
  [items |-> {NoItem},
   files |-> {File(EmptyText), File(JsonText(null)), File(JsonText(Num(5))),
              File(JsonText(Arr(<<>>))),
              File(JsonText(Obj([cases |-> Str("none")]))),
              File(JsonText(Obj([cases |-> Arr(<<null>>)])))},
   fields |-> {},
   names |-> {},
   instants |-> {0}]
Worlds == {ImportWorld, RejectWorld, StoreWorld, EditWorld, ReminderWorld, ShapeWorld}

-----------------------------------------------------------------------------
(* src/App.tsx: the component.                                             *)

\* The effect of lines 67-71, run when data.cases.length has changed.
ReminderEffect(alert, ls, oldLen, newLen, t) ==
  IF oldLen # newLen /\ shouldShowBackupReminder(ls, t) /\ newLen > 0 THEN TRUE ELSE alert

\* Rerender without the persistence effect of lines 62-64.
RerenderNoPersist(newData, oldLen, ls, alert) ==
  /\ data' = newData
  /\ app' = IF RenderThrows(newData) THEN "crashed" ELSE "running"
  /\ localStorage' = ls
  /\ showBackupAlert' =
       IF RenderThrows(newData) THEN alert
       ELSE ReminderEffect(alert, ls, oldLen, Len(CasesOf(newData)), now)

\* A state update of `data` commits: App renders with newData, then the
\* persistence effect and the reminder effect run.  ls and alert are what the
\* handler left in localStorage and showBackupAlert, oldLen the data.cases.length
\* of the previous render (-1 on the first render, when every effect runs).
Rerender(newData, oldLen, ls, alert) ==
  /\ data' = newData
  /\ IF RenderThrows(newData)
       THEN /\ app' = "crashed"
            /\ localStorage' = ls
            /\ showBackupAlert' = alert
       ELSE /\ app' = "running"
            /\ localStorage' = saveDiaryData(ls, newData)
            /\ showBackupAlert' =
                 ReminderEffect(alert, ls, oldLen, Len(CasesOf(newData)), now)

\* The first render: every useState takes its initial value, both effects run.
Mounted(ls) ==
  /\ Rerender(loadDiaryData(ls), -1, ls, FALSE)
  /\ editingCase' = null
  /\ isFormOpen' = FALSE
  /\ selectedCaseId' = null
  /\ caseToDelete' = null
  /\ showPurgeModal' = FALSE
  /\ pendingImportData' = null
  /\ reading' = {}
  /\ console' = loadLogs(ls)

Init ==
  /\ env \in Worlds
  /\ app = "unmounted"
  /\ localStorage \in [diary : env.items, reminder : {NoItem}]
  /\ data = undefined
  /\ showBackupAlert = FALSE
  /\ editingCase = null
  /\ isFormOpen = FALSE
  /\ selectedCaseId = null
  /\ caseToDelete = null
  /\ showPurgeModal = FALSE
  /\ pendingImportData = null
  /\ reading = {}
  /\ console = {}
  /\ now = 0
  /\ uuids = 0

\* The page is opened.
Mount ==
  /\ app = "unmounted"
  /\ Mounted(localStorage)
  /\ UNCHANGED <<now, uuids, env>>

\* The page is reloaded: the component state is lost, the store is not.
Reload ==
  /\ app = "running"
  /\ Mounted(localStorage)
  /\ UNCHANGED <<now, uuids, env>>

\* Time passes.
Tick ==
  /\ \E t \in env.instants : t > now /\ now' = t
  /\ UNCHANGED <<app, localStorage, data, showBackupAlert, editingCase, isFormOpen,
                 selectedCaseId, caseToDelete, showPurgeModal, pendingImportData,
                 reading, uuids, console, env>>

\* The case form (line 908) and the confirmation dialogs (line 753) are
\* full-screen overlays: the form lies over everything, a dialog over the page
\* and over the dialogs rendered before it (delete, purge, import in that order).
\* A control takes a click only while nothing lies over it.
PageFree ==
  ~isFormOpen /\ ~Truthy(caseToDelete) /\ ~showPurgeModal /\ ~Truthy(pendingImportData)
DeleteDialogFree == ~isFormOpen /\ ~showPurgeModal /\ ~Truthy(pendingImportData)
PurgeDialogFree == ~isFormOpen /\ ~Truthy(pendingImportData)
ImportDialogFree == ~isFormOpen

\* selectedCase: data.cases.find(c => c.id === selectedCaseId)
selectedCase == FindById(CasesOf(data), Obj([id |-> selectedCaseId]))

\* handleBackupNow: the banner's Download button and Export Now.
handleBackupNow ==
  /\ app = "running"
  /\ PageFree
  /\ LET newData == ExportedData(data, now)
     IN  Rerender(newData, Len(CasesOf(data)),
                  markBackupReminderAsShown(saveDiaryData(localStorage, newData), now),
                  FALSE)
  /\ UNCHANGED <<editingCase, isFormOpen, selectedCaseId, caseToDelete, showPurgeModal,
                 pendingImportData, reading, now, uuids, console, env>>

\* dismissBackup: the banner's close button.
dismissBackup ==
  /\ app = "running"
  /\ PageFree
  /\ showBackupAlert
  /\ showBackupAlert' = FALSE
  /\ localStorage' = markBackupReminderAsShown(localStorage, now)
  /\ UNCHANGED <<app, data, editingCase, isFormOpen, selectedCaseId, caseToDelete,
                 showPurgeModal, pendingImportData, reading, now, uuids, console, env>>

\* handleFileSelection with a file chosen: a FileReader starts reading it.
handleFileSelection ==
  /\ app = "running"
  /\ PageFree
  /\ \E file \in env.files : reading' = reading \cup {file}
  /\ UNCHANGED <<app, localStorage, data, showBackupAlert, editingCase, isFormOpen,
                 selectedCaseId, caseToDelete, showPurgeModal, pendingImportData,
                 now, uuids, console, env>>

\* handleFileSelection when the file dialog gave no file: `if (!file) return`.
handleFileSelectionNoFile ==
  /\ app = "running"
  /\ PageFree
  /\ UNCHANGED vars

\* reader.onload staging whatever importFromJson returned, and one staging nothing.
StagedEvenNull(pending, result) == importFromJson(result)
StagedNothing(pending, result) == pending

\* What reader.onload does with the text read: the staged dataset after it.
Staged(pending, result) ==
  LET imported == importFromJson(result)
  IN  IF Truthy(imported) THEN imported ELSE pending

\* reader.onload: the import is staged, or rejected with an alert.
readerOnLoad ==
  /\ app = "running"
  /\ \E file \in reading :
       /\ file.readable
       /\ pendingImportData' = Staged(pendingImportData, file.text)
       /\ console' = console \cup importLogs(file.text)
       /\ reading' = reading \ {file}
  /\ UNCHANGED <<app, localStorage, data, showBackupAlert, editingCase, isFormOpen,
                 selectedCaseId, caseToDelete, showPurgeModal, now, uuids, env>>

\* reader.onerror: alert("Failed to read file.")
readerOnError ==
  /\ app = "running"
  /\ \E file \in reading :
       /\ ~file.readable
       /\ reading' = reading \ {file}
  /\ UNCHANGED <<app, localStorage, data, showBackupAlert, editingCase, isFormOpen,
                 selectedCaseId, caseToDelete, showPurgeModal, pendingImportData,
                 now, uuids, console, env>>

\* executeImport: the Import button of the "Import Data?" dialog.
executeImport ==
  /\ app = "running"
  /\ ImportDialogFree
  /\ Truthy(pendingImportData)
  /\ IF MergeThrows(CasesOf(data), CasesOf(pendingImportData))
       THEN /\ app' = "crashed"
            /\ UNCHANGED <<data, localStorage, showBackupAlert>>
       ELSE Rerender(Merge(data, pendingImportData), Len(CasesOf(data)),
                     localStorage, showBackupAlert)
  /\ pendingImportData' = null
  /\ UNCHANGED <<editingCase, isFormOpen, selectedCaseId, caseToDelete, showPurgeModal,
                 reading, now, uuids, console, env>>

\* The dialog's Cancel: setPendingImportData(null)
cancelImport ==
  /\ app = "running"
  /\ ImportDialogFree
  /\ Truthy(pendingImportData)
  /\ pendingImportData' = null
  /\ UNCHANGED <<app, localStorage, data, showBackupAlert, editingCase, isFormOpen,
                 selectedCaseId, caseToDelete, showPurgeModal, reading, now, uuids, console, env>>

\* Delete Everything: setShowPurgeModal(true)
openPurgeModal ==
  /\ app = "running"
  /\ PageFree
  /\ showPurgeModal' = TRUE
  /\ UNCHANGED <<app, localStorage, data, showBackupAlert, editingCase, isFormOpen,
                 selectedCaseId, caseToDelete, pendingImportData, reading, now, uuids, console, env>>

\* executePurge without localStorage.removeItem('last_backup_prompt_ts').
executePurgeKeepsReminder ==
  /\ app = "running"
  /\ PurgeDialogFree
  /\ showPurgeModal
  /\ Rerender(PurgedData, Len(CasesOf(data)), localStorage, showBackupAlert)
  /\ showPurgeModal' = FALSE
  /\ selectedCaseId' = null
  /\ UNCHANGED <<editingCase, isFormOpen, caseToDelete, pendingImportData, reading,
                 now, uuids, console, env>>


\* executePurge: the Reset Now button of the "Reset Diary?" dialog.
executePurge ==
  /\ app = "running"
  /\ PurgeDialogFree
  /\ showPurgeModal
  /\ Rerender(PurgedData, Len(CasesOf(data)),
              [localStorage EXCEPT !.reminder = NoItem], showBackupAlert)
  /\ showPurgeModal' = FALSE
  /\ selectedCaseId' = null
  /\ UNCHANGED <<editingCase, isFormOpen, caseToDelete, pendingImportData, reading,
                 now, uuids, console, env>>

\* The dialog's Cancel: setShowPurgeModal(false)
cancelPurge ==
  /\ app = "running"
  /\ PurgeDialogFree
  /\ showPurgeModal
  /\ showPurgeModal' = FALSE
  /\ UNCHANGED <<app, localStorage, data, showBackupAlert, editingCase, isFormOpen,
                 selectedCaseId, caseToDelete, pendingImportData, reading, now, uuids, console, env>>

\* A case row is clicked (setSelectedCaseId(c.id)) or the detail pane closed.
selectCase ==
  /\ app = "running"
  /\ PageFree
  /\ \E id \in {Get(CasesOf(data)[i], "id") : i \in DOMAIN CasesOf(data)} \cup {null} :
       selectedCaseId' = id
  /\ UNCHANGED <<app, localStorage, data, showBackupAlert, editingCase, isFormOpen,
                 caseToDelete, showPurgeModal, pendingImportData, reading, now, uuids, console, env>>

\* New Case: setEditingCase(null); setIsFormOpen(true)
openNewCaseForm ==
  /\ app = "running"
  /\ PageFree
  /\ editingCase' = null
  /\ isFormOpen' = TRUE
  /\ UNCHANGED <<app, localStorage, data, showBackupAlert, selectedCaseId, caseToDelete,
                 showPurgeModal, pendingImportData, reading, now, uuids, console, env>>

\* Edit Details / Reschedule of the selected case.
openEditForm ==
  /\ app = "running"
  /\ PageFree
  /\ Truthy(selectedCase)
  /\ editingCase' = selectedCase
  /\ isFormOpen' = TRUE
  /\ UNCHANGED <<app, localStorage, data, showBackupAlert, selectedCaseId, caseToDelete,
                 showPurgeModal, pendingImportData, reading, now, uuids, console, env>>

\* The form's Cancel and X: onClose
closeForm ==
  /\ app = "running"
  /\ isFormOpen
  /\ isFormOpen' = FALSE
  /\ UNCHANGED <<app, localStorage, data, showBackupAlert, editingCase, selectedCaseId,
                 caseToDelete, showPurgeModal, pendingImportData, reading, now, uuids, console, env>>

\* CaseForm.handleSubmit and the addOrUpdateCase it calls.
submitForm ==
  /\ app = "running"
  /\ isFormOpen
  /\ \E f \in env.fields :
       IF SubmitRejected(f) \/ SubmitThrows(editingCase)
         THEN UNCHANGED vars
         ELSE /\ uuids + UuidsDrawn(editingCase, f) <= MaxUuids
              /\ LET c == SubmittedCase(editingCase, f, now, uuids)
                     newData == AddOrUpdate(data, c)
                 IN  Rerender(newData, Len(CasesOf(data)), localStorage, showBackupAlert)
              /\ uuids' = uuids + UuidsDrawn(editingCase, f)
              /\ isFormOpen' = FALSE
              /\ editingCase' = null
              /\ UNCHANGED <<selectedCaseId, caseToDelete, showPurgeModal,
                             pendingImportData, reading, now, console, env>>

\* The trash button of the selected case: setCaseToDelete(selectedCase)
askDelete ==
  /\ app = "running"
  /\ PageFree
  /\ Truthy(selectedCase)
  /\ caseToDelete' = selectedCase
  /\ UNCHANGED <<app, localStorage, data, showBackupAlert, editingCase, isFormOpen,
                 selectedCaseId, showPurgeModal, pendingImportData, reading, now, uuids, console, env>>

\* confirmDelete: the Delete button of the "Delete Case?" dialog.
confirmDelete ==
  /\ app = "running"
  /\ DeleteDialogFree
  /\ Truthy(caseToDelete)
  /\ Rerender(DeleteCase(data, Get(caseToDelete, "id")), Len(CasesOf(data)),
              localStorage, showBackupAlert)
  /\ selectedCaseId' = null
  /\ caseToDelete' = null
  /\ UNCHANGED <<editingCase, isFormOpen, showPurgeModal, pendingImportData, reading,
                 now, uuids, console, env>>

\* The dialog's Cancel: setCaseToDelete(null)
cancelDelete ==
  /\ app = "running"
  /\ DeleteDialogFree
  /\ Truthy(caseToDelete)
  /\ caseToDelete' = null
  /\ UNCHANGED <<app, localStorage, data, showBackupAlert, editingCase, isFormOpen,
                 selectedCaseId, showPurgeModal, pendingImportData, reading, now, uuids, console, env>>

\* The Display Name input: setData({ ...data, advocateName: e.target.value })
changeName ==
  /\ app = "running"
  /\ PageFree
  /\ \E name \in env.names :
       Rerender(Spread(data, [advocateName |-> Str(name)]), Len(CasesOf(data)),
                localStorage, showBackupAlert)
  /\ UNCHANGED <<editingCase, isFormOpen, selectedCaseId, caseToDelete, showPurgeModal,
                 pendingImportData, reading, now, uuids, console, env>>

Next ==
  \/ Mount
  \/ Reload
  \/ Tick
  \/ handleBackupNow
  \/ dismissBackup
  \/ handleFileSelection
  \/ handleFileSelectionNoFile
  \/ readerOnLoad
  \/ readerOnError
  \/ executeImport
  \/ cancelImport
  \/ openPurgeModal
  \/ executePurge
  \/ cancelPurge
  \/ selectCase
  \/ openNewCaseForm
  \/ openEditForm
  \/ closeForm
  \/ submitForm
  \/ askDelete
  \/ confirmDelete
  \/ cancelDelete
  \/ changeName

Spec == Init /\ [][Next]_vars

\* ---------------------------------------------------------------------------
\* Properties
\* ---------------------------------------------------------------------------

\* The dataset an import has staged, if any: what executeImport would merge.
Importable == {pendingImportData} \ {null}

IdsOf(items) == {Get(items[i], "id") : i \in DOMAIN items}
UniqueIds(items) ==
  \A i, j \in DOMAIN items : Get(items[i], "id") = Get(items[j], "id") => i = j

\* A text that is no dataset document: not JSON, or JSON without an array at
\* `cases`.
NotADataset(text) ==
  \/ text.syntax # "json"
  \/ text.doc.type # "object"
  \/ "cases" \notin DOMAIN text.doc.members
  \/ text.doc.members.cases.type # "array"

\* The elements of d.cases are all objects, as the cases of a dataset are.
CaseRecords(d) == \A k \in DOMAIN CasesOf(d) : CasesOf(d)[k].type = "object"

\* C1: merging the same incoming dataset a second time changes nothing:
\* merge(merge(D, B), B) = merge(D, B), for the live dataset D and the staged
\* dataset B of every reachable state (every file can be staged over every
\* reachable live dataset), B a dataset: its cases are objects.
C1_MergeIdempotent ==
  app = "running" =>
    \A B \in Importable :
      CaseRecords(B) =>
        /\ ~MergeThrows(CasesOf(data), CasesOf(B))
        /\ ~MergeThrows(CasesOf(Merge(data, B)), CasesOf(B))
        /\ Merge(Merge(data, B), B) = Merge(data, B)

\* The dataset staged now has been merged before and brings nothing new.
C1_Witness ==
  /\ app = "running"
  /\ Truthy(pendingImportData)
  /\ CasesOf(pendingImportData) # <<>>
  /\ CaseRecords(pendingImportData)
  /\ IdsOf(CasesOf(pendingImportData)) \subseteq IdsOf(CasesOf(data))
  /\ Merge(data, pendingImportData) = data

\* C2: a merge keeps every case of the current dataset, every field unchanged
\* and never duplicated, also when the incoming dataset has a case of the same
\* id: the local case wins.
C2_MergeLocalWins ==
  app = "running" =>
    \A B \in Importable :
      LET cur == CasesOf(data)
          res == CasesOf(Merge(data, B))
      IN  \A i \in DOMAIN cur :
            /\ \E j \in DOMAIN res : res[j] = cur[i]
            /\ \A j \in DOMAIN res :
                 Get(res[j], "id") = Get(cur[i], "id") => res[j] = cur[i]
            /\ Cardinality({j \in DOMAIN res : Get(res[j], "id") = Get(cur[i], "id")}) = 1

\* {A: Old} has been merged with {A: New, B}: A is still Old, B was added.
C2_Witness ==
  /\ app = "running"
  /\ CasesOf(data) = <<FileCase("A", "Old", "2024-01-10"), FileCase("B", "New", "")>>

\* C3: a merge only adds: the result has at least as many cases as the current
\* dataset, and every id of the incoming dataset that is not in the current
\* dataset is the id of exactly one case of the result, the first incoming case
\* of that id; so every case of an incoming dataset (of pairwise distinct ids,
\* as in every dataset) whose id is not in the current dataset is in the result
\* exactly once.
C3_MergeAdditive ==
  app = "running" =>
    \A B \in Importable :
      LET cur == CasesOf(data)
          inc == CasesOf(B)
          res == CasesOf(Merge(data, B))
      IN  /\ Len(res) >= Len(cur)
          /\ \A k \in DOMAIN inc :
               Get(inc[k], "id") \notin IdsOf(cur) =>
                 /\ Cardinality({j \in DOMAIN res :
                                   Get(res[j], "id") = Get(inc[k], "id")}) = 1
                 /\ \E j \in DOMAIN res :
                      res[j] = inc[FindIndexById(inc, Get(inc[k], "id"))]
          /\ UniqueIds(inc) =>
               \A k \in DOMAIN inc :
                 Get(inc[k], "id") \notin IdsOf(cur) =>
                   Cardinality({j \in DOMAIN res : res[j] = inc[k]}) = 1

\* An import has added its case behind a case created locally.
C3_Witness ==
  /\ app = "running"
  /\ Len(CasesOf(data)) >= 2
  /\ Get(CasesOf(data)[1], "id") = randomUUID(1)
  /\ Get(CasesOf(data)[2], "id") = Str("A")

\* C4: starting from the empty first-run dataset, no sequence of create, edit,
\* reschedule, delete, import, export and purge puts two cases of one id into
\* the dataset.
C4_UniqueIds ==
  (app = "running" /\ env.items = {NoItem}) => UniqueIds(CasesOf(data))

\* A local case and two imported cases side by side.
C4_Witness ==
  /\ app = "running"
  /\ env.items = {NoItem}
  /\ IdsOf(CasesOf(data)) = {randomUUID(1), Str("A"), Str("B")}

\* A read that ends in reader.onerror, or in reader.onload with a text that
\* importFromJson rejects.
FailedImport ==
  \/ readerOnError
  \/ /\ readerOnLoad
     /\ \E file \in reading :
          /\ file.readable
          /\ reading' = reading \ {file}
          /\ NotADataset(file.text)

\* C5: an import that fails, because the file cannot be read or because its
\* text is no dataset document, changes neither the live dataset nor the store
\* nor a dataset staged before, and saves nothing.
C5_FailedImportMutatesNothing ==
  [][FailedImport => UNCHANGED <<data, localStorage, pendingImportData>>]_vars

\* A text was rejected while a dataset was staged, and the diary has cases.
C5_Witness ==
  /\ app = "running"
  /\ "Failed to import JSON" \in console
  /\ Truthy(pendingImportData)
  /\ CasesOf(data) # <<>>
  /\ reading = {}

\* reader.onload of a read whose text importFromJson accepts.
StagingStep(file) ==
  /\ readerOnLoad
  /\ file \in reading
  /\ file.readable
  /\ reading' = reading \ {file}
  /\ ~NotADataset(file.text)

\* C6: an import has two steps.  A successful parse only stages the incoming
\* dataset: the live dataset and the store stay as they are.  Confirming
\* merges the staged dataset into the live one and empties the slot,
\* declining empties the slot and changes nothing else, and a case of a file
\* enters the live dataset by no step but the confirmation.
C6_TwoStepImport ==
  [][ /\ \A file \in reading :
           StagingStep(file) =>
             /\ pendingImportData' = JSONparse(file.text)
             /\ UNCHANGED <<data, localStorage>>
      /\ executeImport =>
           /\ Truthy(pendingImportData)
           /\ pendingImportData' = null
           /\ app' = "running" => data' = Merge(data, pendingImportData)
      /\ cancelImport =>
           /\ pendingImportData' = null
           /\ UNCHANGED <<data, localStorage>>
      /\ (IdsOf(CasesOf(data')) \ IdsOf(CasesOf(data))) \cap {Str("A"), Str("B")} # {} =>
           executeImport
    ]_vars

\* An import has been confirmed and a second one is staged.
C6_Witness ==
  /\ app = "running"
  /\ Str("A") \in IdsOf(CasesOf(data))
  /\ Str("B") \notin IdsOf(CasesOf(data))
  /\ pendingImportData = BackupNew

\* C7: load() returns the fresh default dataset when nothing is stored and
\* when the stored text does not parse, and raises nothing: the app starts.
C7_LoadFallback ==
  [][ (localStorage.diary.syntax \in {"none", "empty", "invalid"} /\ (Mount \/ Reload))
        => (data' = DefaultData /\ app' = "running") ]_vars

\* The app runs on the default dataset after the stored text failed to parse.
C7_Witness ==
  /\ app = "running"
  /\ "Failed to parse stored diary data" \in console
  /\ data = DefaultData

\* C8 (as stated): when the stored text is well-formed JSON but no dataset
\* (null, a number, an object without cases), load() returns the fresh default
\* dataset, so the dataset loaded always has a cases sequence.
C8_LoadRejectsNonDataset ==
  [][ ((Mount \/ Reload) /\ localStorage.diary.syntax = "json"
         /\ NotADataset(localStorage.diary))
        => (data' = DefaultData /\ IsArray(Get(data', "cases"))) ]_vars

\* The datasets a save may be given in this state.
SaveCandidates ==
  IF app = "running" THEN {data, ExportedData(data, now)} \cup Importable
  ELSE {DefaultData, PurgedData}

\* C9: save(D) replaces whatever the diary slot held: a load right after it
\* returns D, and the reminder slot is as it was.
C9_SaveReplacesDocument ==
  \A D \in SaveCandidates :
    LET saved == saveDiaryData(localStorage, D)
    IN  /\ loadDiaryData(saved) = D
        /\ saved.diary = JSONstringify(D)
        /\ saved.reminder = localStorage.reminder

\* A diary saved over a text that did not parse, with the reminder slot in use.
C9_Witness ==
  /\ app = "running"
  /\ "Failed to parse stored diary data" \in console
  /\ localStorage.reminder # NoItem
  /\ CasesOf(data) # <<>>
  /\ localStorage.diary = JSONstringify(data)

\* C10: after every mutation of the live dataset the persisted document is
\* the live dataset.
C10_PersistedAfterMutation ==
  app = "running" =>
    /\ localStorage.diary = JSONstringify(data)
    /\ loadDiaryData(localStorage) = data

\* Creates, an import and an export have all reached the store.
C10_Witness ==
  /\ app = "running"
  /\ Len(CasesOf(data)) >= 2
  /\ Get(data, "lastBackupDate") # null
  /\ randomUUID(1) \in IdsOf(CasesOf(data))
  /\ loadDiaryData(localStorage) = data

\* C11: a dataset exported and imported again is the same dataset, field for
\* field, hearing histories included: importFromJson of the text exportToJson
\* downloads for the live dataset succeeds and returns the live dataset, with
\* the lastBackupDate it had before the export stamped it.
C11_ExportImportRoundTrip ==
  app = "running" =>
    /\ importFromJson(ExportText(data)) = data
    /\ Get(importFromJson(ExportText(data)), "lastBackupDate") = Get(data, "lastBackupDate")

\* A diary with a rescheduled case (a history entry) and an earlier backup.
C11_Witness ==
  /\ app = "running"
  /\ \E i \in DOMAIN CasesOf(data) : Get(CasesOf(data)[i], "history") # Arr(<<>>)
  /\ Get(data, "lastBackupDate") # null
  /\ importFromJson(ExportText(data)) = data

\* C12: handleBackupNow sets the live dataset to the copy exportToJson returns:
\* lastBackupDate is the current time, cases and advocateName are those of the
\* dataset exported, and that copy is what is persisted.
C12_ExportStampsCopy ==
  [][ handleBackupNow =>
        /\ Get(data', "lastBackupDate") = IsoString(now)
        /\ Get(data', "cases") = Get(data, "cases")
        /\ Get(data', "advocateName") = Get(data, "advocateName")
        /\ data' = ExportedData(data, now)
        /\ loadDiaryData(localStorage') = data' ]_vars

\* A second backup of a diary with cases, later than the first.
C12_Witness ==
  /\ app = "running"
  /\ now > 0
  /\ CasesOf(data) # <<>>
  /\ Get(data, "lastBackupDate") = IsoString(now)

\* C13: importFromJson is total and validates the shape only: for every text a
\* read hands it, it returns the parsed document when the text parses and its
\* top-level value is an object with an array at `cases`, and null otherwise
\* (unparseable text, null, a number, an array, an object whose `cases` is
\* missing or no array); reader.onload never ends the app.
C13_ImportShallowAndTotal ==
  [][ /\ \A file \in reading :
           file.readable =>
             importFromJson(file.text) =
               IF NotADataset(file.text) THEN null ELSE JSONparse(file.text)
      /\ readerOnLoad => app' = "running" ]_vars

\* Of the documents read, the one with an array at `cases` is staged and an
\* unparseable one was reported.
C13_Witness ==
  /\ app = "running"
  /\ env = ShapeWorld
  /\ pendingImportData = Obj([cases |-> Arr(<<null>>)])
  /\ "Failed to import JSON" \in console
  /\ reading = {}

\* C14 (as stated): confirming the merge of any dataset importFromJson
\* accepted, whatever the elements of its cases array are, completes without
\* crashing: the app still runs after executeImport.
C14_MergeToleratesMalformed ==
  [][executeImport => app' = "running"]_vars

\* C15: a confirmed merge takes the advocateName of the import when the import
\* has one and it is not empty, and keeps the current advocateName otherwise.
C15_MergeAdvocateName ==
  [][ executeImport =>
        LET incoming == Get(pendingImportData, "advocateName")
        IN  Get(data', "advocateName") =
              IF incoming.type = "string" /\ incoming.value # ""
                THEN incoming
                ELSE Get(data, "advocateName") ]_vars

\* The name came with one import and was kept by the import without a name.
C15_Witness ==
  /\ app = "running"
  /\ env = ImportWorld
  /\ Get(data, "advocateName") = Str("Adv. Rao")
  /\ IdsOf(CasesOf(data)) = {Str("A"), Str("B")}
  /\ pendingImportData = null

\* C16: a confirmed merge leaves lastBackupDate as it was, whatever the
\* lastBackupDate of the import is.
C16_MergeKeepsBackupDate ==
  [][ executeImport =>
        Get(data', "lastBackupDate") = Get(data, "lastBackupDate") ]_vars

\* The import that carries a lastBackupDate was merged into a diary never
\* backed up.
C16_Witness ==
  /\ app = "running"
  /\ Str("B") \in IdsOf(CasesOf(data))
  /\ Get(BackupNew, "lastBackupDate") # null
  /\ Get(data, "lastBackupDate") = null

\* C17: shouldShowBackupReminder is true when no timestamp is recorded; with
\* the timestamp T recorded it is true exactly when now - T > 86,400,000 ms:
\* false at T + 23h59m and at T + 24h, true at T + 24h0m1s.  When the reminder
\* effect raises the banner, the reminder slot is as it was.
C17_ReminderThreshold ==
  [][ /\ localStorage.reminder = NoItem => shouldShowBackupReminder(localStorage, now)
      /\ localStorage.reminder.syntax = "decimal" =>
           (shouldShowBackupReminder(localStorage, now)
              <=> now - localStorage.reminder.value > 86400000)
      /\ \A T \in env.instants :
           LET marked == markBackupReminderAsShown(localStorage, T)
           IN  /\ ~shouldShowBackupReminder(marked, T + 86340000)
               /\ ~shouldShowBackupReminder(marked, T + 86400000)
               /\ shouldShowBackupReminder(marked, T + 86401000)
      /\ (~showBackupAlert /\ showBackupAlert') =>
           localStorage'.reminder = localStorage.reminder ]_vars

\* Dismissed at time 0, the banner is up again 24h0m1s later.
C17_Witness ==
  /\ app = "running"
  /\ localStorage.reminder = DecimalText(0)
  /\ now = 86401000
  /\ showBackupAlert
  /\ CasesOf(data) # <<>>

\* C18: dismissing the banner and backing up both record the current time as
\* the reminder timestamp, whatever was recorded before, so that
\* shouldShowBackupReminder is false for the next 24 hours; dismissing leaves
\* the dataset, lastBackupDate included, and the persisted diary as they were.
C18_DismissMarksLikeBackup ==
  [][ (dismissBackup \/ handleBackupNow) =>
        /\ localStorage'.reminder = DecimalText(now)
        /\ \A t \in env.instants :
             (t >= now /\ t - now <= 86400000) => ~shouldShowBackupReminder(localStorage', t)
        /\ dismissBackup =>
             /\ data' = data
             /\ localStorage'.diary = localStorage.diary ]_vars

\* The backup at time 0 recorded 0; a dismissal 24h0m1s later overwrote it and
\* left lastBackupDate alone.
C18_Witness ==
  /\ app = "running"
  /\ Get(data, "lastBackupDate") = IsoString(0)
  /\ localStorage.reminder = DecimalText(86401000)
  /\ ~showBackupAlert

\* C19: after a confirmed purge the live dataset and the dataset a load would
\* return are {cases: [], lastBackupDate: null, advocateName: "Counsel"}, no
\* reminder timestamp is recorded and shouldShowBackupReminder is true.
C19_PurgeResets ==
  [][ executePurge =>
        LET fresh == Obj([cases |-> Arr(<<>>), lastBackupDate |-> null,
                          advocateName |-> Str("Counsel")])
        IN  /\ app' = "running"
            /\ data' = fresh
            /\ loadDiaryData(localStorage') = fresh
            /\ localStorage'.reminder = NoItem
            /\ shouldShowBackupReminder(localStorage', now) ]_vars

\* A diary that had a case, late in the day, is back at the default with no
\* timestamp recorded.
C19_Witness ==
  /\ app = "running"
  /\ uuids >= 1
  /\ now > 0
  /\ data = DefaultData
  /\ localStorage.reminder = NoItem
  /\ localStorage.diary = JSONstringify(DefaultData)
  /\ ~showPurgeModal

\* The form is submitted for an existing case and handleSubmit accepts it.
EditStep ==
  /\ submitForm
  /\ Truthy(editingCase)
  /\ isFormOpen /\ ~isFormOpen'

\* C20 (as stated): whenever an edit of an existing case changes its next
\* hearing date, from any previous value (the empty one included) to any other,
\* exactly one Hearing dated with the previous date is appended at the end of
\* the case's history and nextHearingDate becomes the value submitted; an edit
\* that leaves the date alone appends nothing.
C20_RescheduleAppendsHistory ==
  [][ EditStep =>
        LET i == FindIndexById(CasesOf(data), Get(editingCase, "id"))
            j == FindIndexById(CasesOf(data'), Get(editingCase, "id"))
        IN  /\ i > 0 /\ j > 0
            /\ LET old == CasesOf(data)[i]
                   new == CasesOf(data')[j]
                   oldHistory == Get(old, "history").items
                   newHistory == Get(new, "history").items
               IN  /\ \E f \in env.fields : Get(new, "nextHearingDate") = Str(f.nextDate)
                   /\ IF Get(new, "nextHearingDate") # Get(old, "nextHearingDate")
                        THEN /\ Len(newHistory) = Len(oldHistory) + 1
                             /\ SubSeq(newHistory, 1, Len(oldHistory)) = oldHistory
                             /\ Get(newHistory[Len(newHistory)], "date") =
                                  Get(old, "nextHearingDate")
                        ELSE newHistory = oldHistory ]_vars

\* The history of a case, none when the case has no history array.
HistoryOf(c) == LET h == Get(c, "history") IN IF IsArray(h) THEN h.items ELSE <<>>

IsPrefix(a, b) == Len(a) <= Len(b) /\ SubSeq(b, 1, Len(a)) = a

\* A step of the running app that leaves it running.
RunningStep == app = "running" /\ app' = "running"

C22_RemovalOnlyByDeleteOrPurge ==
  [][ /\ (RunningStep /\ IdsOf(CasesOf(data)) \ IdsOf(CasesOf(data')) # {}) =>
           \/ executePurge
           \/ /\ confirmDelete
              /\ IdsOf(CasesOf(data)) \ IdsOf(CasesOf(data')) = {Get(caseToDelete, "id")}
      /\ confirmDelete =>
           /\ Get(caseToDelete, "id") \in IdsOf(CasesOf(data))
           /\ CasesOf(data') =
                SelectSeq(CasesOf(data), LAMBDA c : Get(c, "id") # Get(caseToDelete, "id"))
           /\ Len(CasesOf(data')) = Len(CasesOf(data)) - 1
           /\ Get(data', "advocateName") = Get(data, "advocateName")
           /\ caseToDelete' = null
      /\ cancelDelete => (caseToDelete' = null /\ UNCHANGED <<data, localStorage>>) ]_vars

\* Of the two cases of an import, the first was deleted and the second is left.
C22_Witness ==
  /\ app = "running"
  /\ CasesOf(data) = <<FileCase("B", "New", "")>>
  /\ caseToDelete = null

\* The form is submitted for a new case and handleSubmit accepts it.
CreateStep ==
  /\ submitForm
  /\ ~Truthy(editingCase)
  /\ isFormOpen /\ ~isFormOpen'

\* C23: saving an edit of a case of the dataset keeps the number of cases, the
\* position of the case, its id and its createdAt, and every other case as it
\* was; saving a new case adds exactly one case, of an id no case had, and
\* leaves every case there was as it was.
C23_EditInPlace ==
  [][ /\ EditStep =>
           LET cases == CasesOf(data)
               after == CasesOf(data')
               i == FindIndexById(cases, Get(editingCase, "id"))
           IN  /\ app' = "running"
               /\ i > 0
               /\ Len(after) = Len(cases)
               /\ Get(after[i], "id") = Get(cases[i], "id")
               /\ Get(after[i], "createdAt") = Get(cases[i], "createdAt")
               /\ \A k \in DOMAIN cases : k # i => after[k] = cases[k]
      /\ CreateStep =>
           LET cases == CasesOf(data)
               after == CasesOf(data')
           IN  /\ app' = "running"
               /\ Len(after) = Len(cases) + 1
               /\ Get(after[1], "id") \notin IdsOf(cases)
               /\ Get(after[1], "id").type = "string"
               /\ SubSeq(after, 2, Len(after)) = cases ]_vars

\* The imported case was edited (its title is the form's) where it stood,
\* behind the case created locally.
C23_Witness ==
  /\ app = "running"
  /\ env = EditWorld
  /\ Len(CasesOf(data)) = 2
  /\ Get(CasesOf(data)[1], "id") = randomUUID(1)
  /\ Get(CasesOf(data)[2], "id") = Str("A")
  /\ Get(CasesOf(data)[2], "title") = Str("New")
  /\ Get(CasesOf(data)[2], "createdAt") = IsoString(0)

\* C24: lastBackupDate follows the exports and nothing else: it is null when
\* the app first starts on an empty store, handleBackupNow sets it to the time
\* of the export, a purge sets it back to null, and no other step (create,
\* edit, delete, confirmed import, name change, dismissal, reload) changes it.
\* So it is null while nothing was exported since the first run or the last
\* purge, and the time of the latest export otherwise.
C24_BackupDateTracksExports ==
  [][ /\ (Mount /\ app' = "running") => Get(data', "lastBackupDate") = null
      /\ handleBackupNow => Get(data', "lastBackupDate") = IsoString(now)
      /\ executePurge => Get(data', "lastBackupDate") = null
      /\ (RunningStep /\ Get(data', "lastBackupDate") # Get(data, "lastBackupDate")) =>
           (handleBackupNow \/ executePurge)
      /\ dismissBackup => data' = data ]_vars

\* A day after the only export, the reminder dismissed and the name changed
\* since: lastBackupDate is still the time of that export.
C24_Witness ==
  /\ app = "running"
  /\ Get(data, "lastBackupDate") = IsoString(0)
  /\ now = 86401000
  /\ localStorage.reminder = DecimalText(86401000)
  /\ Get(data, "advocateName") = Str("Adv. Rao")
  /\ CasesOf(data) # <<>>

\* C25 (as stated): the backup banner is visible only while the dataset has a
\* case; it is not visible after the last case was deleted or after a purge.
C25_BannerOnlyForNonEmptyDiary ==
  (app = "running" /\ showBackupAlert) => CasesOf(data) # <<>>

====
